---- MODULE Spec2Model ----
(***************************************************************************)
(* A model of the two rust101 exercises:                                   *)
(*   02_guessing_game/guessing_game/src/main.rs      (the guessing game)   *)
(*   03_programming_concepts/variables_and_mutability/src/main.rs          *)
(* Characters are one-character strings, a String is a sequence of them.   *)
(***************************************************************************)
EXTENDS Integers, Sequences, FiniteSets, TLC

VARIABLES
    secret_number,  \* main.rs:16   the target, 0 while not yet generated
    pc,             \* position of the game's main: gen, loop, read, parse, compare, done, panic
    guess,          \* main.rs:32   the String buffer of the current iteration
    guess_num,      \* main.rs:78   the shadowing u32 `guess`, NoGuess while unbound
    out,            \* what the current iteration has written to standard output
    stdin_eof,      \* standard input has reported end of input
    line,           \* the bytes standard input delivered to the last read_line
    read_result,    \* what the last read_line returned: none, ok, eof, err
    lo, hi,         \* the interval the player keeps
    typed,          \* the number the player typed last
    tries,          \* how many guesses the player has had answered
    vpc,            \* the demo's next statement, an index in Program
    scopes,         \* the demo's stack of lexical scopes, innermost last
    vout            \* what the demo has written to standard output

gameVars   == <<secret_number, pc, guess, guess_num, out, stdin_eof, line, read_result>>
playerVars == <<lo, hi, typed, tries>>
demoVars   == <<vpc, scopes, vout>>
vars       == <<secret_number, pc, guess, guess_num, out, stdin_eof, line, read_result,
                lo, hi, typed, tries, vpc, scopes, vout>>

----------------------------------------------------------------------------
(* Bounds of the model *)

MaxGuess == 101
MaxPad == 1

----------------------------------------------------------------------------
(* Constants of the program *)

SecretMin == 1
SecretMax == 100
PromptMin == 0
PromptMax == 100

PromptText  == "Guess a number between 0 and 100."
GuessText   == "Your guess: "
LowText     == "Too low - try again."
HighText    == "Too high - try again."
CorrectText == "Correct - the secret number was "

Digits == <<"0", "1", "2", "3", "4", "5", "6", "7", "8", "9">>
DigitChars == {Digits[i] : i \in 1..10}
DigitVal(c) == (CHOOSE i \in 1..10 : Digits[i] = c) - 1

\* The characters of the model: the digits, whitespace, signs and letters.
Chars == DigitChars \cup {" ", "\t", "\n", "\r", "+", "-", "a", "b", "c"}

----------------------------------------------------------------------------
(* u32: a value is <<high half, low half>>, two 16-bit halves, so that the   *)
(* whole 32-bit range and its overflow are represented exactly.              *)

HalfBits == 16
Half == 2^HalfBits
U32Of(n) == <<n \div Half, n % Half>>
U32MaxValue == <<Half - 1, Half - 1>>
NoGuess == <<>>

Ok(v) == [ok |-> TRUE, val |-> v]
Err   == [ok |-> FALSE, val |-> NoGuess]

\* u32::checked_mul(10)
CheckedMul10(v) ==
    LET low  == v[2] * 10
        high == v[1] * 10 + (low \div Half)
    IN  IF high >= Half THEN Err ELSE Ok(<<high, low % Half>>)

\* u32::checked_add(d), d a digit
CheckedAdd(v, d) ==
    LET low  == v[2] + d
        high == v[1] + (low \div Half)
    IN  IF high >= Half THEN Err ELSE Ok(<<high, low % Half>>)

\* Faulty variant: the operands of the comparison exchanged.
CmpSwapped(a, b) ==
    IF b[1] < a[1] \/ (b[1] = a[1] /\ b[2] < a[2]) THEN "Less"
    ELSE IF a = b THEN "Equal"
    ELSE "Greater"

\* u32's Ord: a.cmp(&b)
Cmp(a, b) ==
    IF a[1] < b[1] \/ (a[1] = b[1] /\ a[2] < b[2]) THEN "Less"
    ELSE IF a = b THEN "Equal"
    ELSE "Greater"

U32 == (0..(Half - 1)) \X (0..(Half - 1))

\* Display for u32: the decimal digits, most significant first, no padding.
DisplayDigits[v \in U32] ==
    LET full == (v[1] % 10) * Half + v[2]
        rest == <<v[1] \div 10, full \div 10>>
    IN  IF rest = <<0, 0>> THEN <<Digits[(full % 10) + 1]>>
        ELSE Append(DisplayDigits[rest], Digits[(full % 10) + 1])

Display(v) == DisplayDigits[v]

----------------------------------------------------------------------------
(* str::trim and str::parse::<u32> *)

\* char::is_whitespace, on the characters of the model
IsWhitespace(c) == c \in {" ", "\t", "\n", "\r"}

\* str::trim_start
TrimStart[s \in Seq(Chars)] ==
    IF s # <<>> /\ IsWhitespace(Head(s)) THEN TrimStart[Tail(s)] ELSE s

\* str::trim_end
TrimEnd[s \in Seq(Chars)] ==
    IF s # <<>> /\ IsWhitespace(s[Len(s)])
    THEN TrimEnd[SubSeq(s, 1, Len(s) - 1)]
    ELSE s

\* Faulty variant: only the leading whitespace is removed.
TrimStartOnly(s) == TrimStart[s]

\* str::trim
Trim(s) == TrimEnd[TrimStart[s]]

\* The digit loop of from_str_radix: checked_mul(10), then checked_add(digit).
ParseDigits[s \in Seq(Chars), acc \in U32] ==
    IF s = <<>> THEN Ok(acc)
    ELSE IF Head(s) \notin DigitChars THEN Err
    ELSE LET m == CheckedMul10(acc)
         IN  IF ~m.ok THEN Err
             ELSE LET a == CheckedAdd(m.val, DigitVal(Head(s)))
                  IN  IF ~a.ok THEN Err ELSE ParseDigits[Tail(s), a.val]

\* u32::from_str: empty is an error, a lone sign is an error, a leading '+' is
\* dropped, a leading '-' is left in place for an unsigned type and fails as a digit.
ParseU32(s) ==
    IF s = <<>> THEN Err
    ELSE IF Len(s) = 1 /\ Head(s) \in {"+", "-"} THEN Err
    ELSE IF Head(s) = "+" THEN ParseDigits[Tail(s), U32Of(0)]
    ELSE ParseDigits[s, U32Of(0)]

\* guess.trim().parse()
ParseGuess(s) == ParseU32(Trim(s))

----------------------------------------------------------------------------
(* Standard input: the lines read_line can deliver *)

\* The decimal digits of a number the player types.
RECURSIVE ToDigits(_)
ToDigits(n) ==
    IF n < 10 THEN <<Digits[n + 1]>>
    ELSE Append(ToDigits(n \div 10), Digits[(n % 10) + 1])

RECURSIVE Pads(_)
Pads(n) == IF n = 0 THEN {<<>>} ELSE Pads(n - 1) \cup {Append(p, " ") : p \in Pads(n - 1)}

Terminators == {<<>>, <<"\n">>, <<"\r", "\n">>}

NumberBodies == {ToDigits(n) : n \in 0..MaxGuess}

SpecialBodies ==
    { <<>>,                                  \* nothing typed
      <<"a", "b", "c">>,                     \* text
      <<"1", "a">>,                          \* a digit, then text
      <<"-", "5">>,                          \* a negative number
      <<"-", "0">>,
      <<"+", "7">>,                          \* an explicit plus sign
      <<"+">>, <<"-">>,                      \* a lone sign
      <<"+", "+", "7">>,
      <<"1", " ", "2">>,                     \* whitespace between digits
      <<"4", "\t", "2">>,
      <<"\t", "4", "2">>,                    \* a tab in front
      <<"0", "0", "7">>,                     \* leading zeros
      <<"4", "2", "9", "4", "9", "6", "7", "2", "9", "5">>,       \* the largest u32
      <<"4", "2", "9", "4", "9", "6", "7", "2", "9", "6">>,       \* one above it
      <<"4", "2", "9", "4", "9", "6", "7", "3", "0", "0">>,       \* overflow in the add
      <<"9", "9", "9", "9", "9", "9", "9", "9", "9", "9", "9">> } \* far above it

Bodies == NumberBodies \cup SpecialBodies

\* Each body as typed, ended by Enter.
PlainLines == {b \o <<"\n">> : b \in Bodies}

Lines == {l \o b \o t \o e : l \in Pads(MaxPad), b \in Bodies,
                             t \in Pads(MaxPad), e \in Terminators}

----------------------------------------------------------------------------
(* The guessing game: main.rs of 02_guessing_game *)

Say(text)        == [text |-> text, arg |-> <<>>]
SayNum(text, v)  == [text |-> text, arg |-> Display(v)]

\* Faulty variant: a range one too wide.
GenRangeWide == SecretMin..(SecretMax + 1)

\* rand::thread_rng().gen_range(1..=100)
GenRange == SecretMin..SecretMax

GenSecret ==
    /\ pc = "gen"
    /\ \E s \in GenRange : secret_number' = s
    /\ pc' = "loop"
    /\ UNCHANGED <<guess, guess_num, out, stdin_eof, line, read_result>>
    /\ UNCHANGED <<playerVars, demoVars>>

\* Faulty variant: the buffer of the previous iteration is reused.
KeepString(old) == old

\* String::new()
NewString(old) == <<>>

\* Top of the loop: the prompt, and a new empty buffer; the bindings of the
\* previous iteration are gone.
Prompt ==
    /\ pc = "loop"
    /\ out' = <<Say(PromptText)>>
    /\ guess' = NewString(guess)
    /\ guess_num' = NoGuess
    /\ line' = <<>>
    /\ read_result' = "none"
    /\ pc' = "read"
    /\ UNCHANGED <<secret_number, stdin_eof>>
    /\ UNCHANGED <<playerVars, demoVars>>

\* read_line appends what it read to the buffer.
ReadInto(buf, l) == buf \o l

\* io::stdin().read_line(&mut guess) returns Ok(n), n > 0: a line of S arrives.
ReadLineFrom(S) ==
    /\ pc = "read"
    /\ ~stdin_eof
    /\ \E l \in S \ {<<>>} :
          /\ guess' = ReadInto(guess, l)
          /\ line' = l
    /\ read_result' = "ok"
    /\ pc' = "parse"
    /\ UNCHANGED <<secret_number, guess_num, out, stdin_eof>>
    /\ UNCHANGED <<playerVars, demoVars>>

ReadLineOk == ReadLineFrom(Lines)

\* Faulty variant: end of input is taken for a failure of the read.
ReadLineEofFails ==
    /\ pc = "read"
    /\ stdin_eof' = TRUE
    /\ read_result' = "eof"
    /\ pc' = "panic"
    /\ UNCHANGED <<secret_number, guess, guess_num, out, line>>
    /\ UNCHANGED <<playerVars, demoVars>>

\* read_line at end of input: Ok(0), nothing appended; the input stays exhausted.
ReadLineEof ==
    /\ pc = "read"
    /\ guess' = ReadInto(guess, <<>>)
    /\ line' = <<>>
    /\ stdin_eof' = TRUE
    /\ read_result' = "eof"
    /\ pc' = "parse"
    /\ UNCHANGED <<secret_number, guess_num, out>>
    /\ UNCHANGED <<playerVars, demoVars>>

\* Faulty variant: the Err of read_line is dropped and the iteration goes on.
ExpectIgnored == "parse"

\* What .expect("Failed to read guess.") does with an Err.
ExpectFailure == "panic"

\* read_line returns Err: expect panics.
ReadLineErr ==
    /\ pc = "read"
    /\ ~stdin_eof
    /\ pc' = ExpectFailure
    /\ read_result' = "err"
    /\ UNCHANGED <<secret_number, guess, guess_num, out, stdin_eof, line>>
    /\ UNCHANGED <<playerVars, demoVars>>

\* match guess.trim().parse() { Ok(num) => num, ... }
ParseOk ==
    /\ pc = "parse"
    /\ ParseGuess(guess).ok
    /\ guess_num' = ParseGuess(guess).val
    /\ pc' = "compare"
    /\ UNCHANGED <<secret_number, guess, out, stdin_eof, line, read_result>>
    /\ UNCHANGED <<playerVars, demoVars>>

\* Faulty variant: a failed parse panics, as parse().expect(...) would.
ParseErrPanics == "panic"

\* Where the Err arm of the parse goes: continue.
ParseErrTarget == "loop"

\* match guess.trim().parse() { ..., Err(_) => continue }
ParseErr ==
    /\ pc = "parse"
    /\ ~ParseGuess(guess).ok
    /\ pc' = ParseErrTarget
    /\ UNCHANGED <<secret_number, guess, guess_num, out, stdin_eof, line, read_result>>
    /\ UNCHANGED <<playerVars, demoVars>>

\* Faulty variant: the Equal arm without its break.
VerdictNoBreak(g, s) ==
    CASE Cmp(g, U32Of(s)) = "Less"    -> [msg |-> Say(LowText), next |-> "loop"]
      [] Cmp(g, U32Of(s)) = "Greater" -> [msg |-> Say(HighText), next |-> "loop"]
      [] Cmp(g, U32Of(s)) = "Equal"   -> [msg |-> SayNum(CorrectText, U32Of(s)), next |-> "loop"]

\* Faulty variant: the messages of the Less and Greater arms exchanged.
VerdictSwapped(g, s) ==
    CASE Cmp(g, U32Of(s)) = "Less"    -> [msg |-> Say(HighText), next |-> "loop"]
      [] Cmp(g, U32Of(s)) = "Greater" -> [msg |-> Say(LowText), next |-> "loop"]
      [] Cmp(g, U32Of(s)) = "Equal"   -> [msg |-> SayNum(CorrectText, U32Of(s)), next |-> "done"]

\* The arms of match guess.cmp(&secret_number): the message and where to go.
Verdict(g, s) ==
    CASE Cmp(g, U32Of(s)) = "Less"    -> [msg |-> Say(LowText), next |-> "loop"]
      [] Cmp(g, U32Of(s)) = "Greater" -> [msg |-> Say(HighText), next |-> "loop"]
      [] Cmp(g, U32Of(s)) = "Equal"   -> [msg |-> SayNum(CorrectText, U32Of(s)), next |-> "done"]

\* println!("Your guess: {guess}") and the match on the ordering.
CompareStep ==
    /\ pc = "compare"
    /\ out' = out \o <<SayNum(GuessText, guess_num), Verdict(guess_num, secret_number).msg>>
    /\ pc' = Verdict(guess_num, secret_number).next
    /\ UNCHANGED <<secret_number, guess, guess_num, stdin_eof, line, read_result>>

Compare == CompareStep /\ UNCHANGED <<playerVars, demoVars>>

----------------------------------------------------------------------------
(* The variables demo: main.rs of 03_programming_concepts/variables_and_mutability *)
(* A scope is the sequence of its bindings in declaration order; `scopes` is  *)
(* the stack of open scopes. A later binding of a name shadows an earlier one.*)

IntVal(n) == [kind |-> "int", int |-> n, str |-> <<>>]
StrVal(s) == [kind |-> "str", int |-> 0, str |-> s]

Stmt(op, name, val, text, at) == [op |-> op, name |-> name, val |-> val, text |-> text, at |-> at]

\* 60 * 60 * 3, evaluated at compile time
THREE_HOURS_IN_SECONDS == 60 * 60 * 3

\* The statements of main, each with its source line.
Program ==
    << Stmt("open",   "",       IntVal(0),  "", 31),
       Stmt("let",    "x",      IntVal(5),  "", 33),
       Stmt("print",  "x",      IntVal(0),  "The value of x is {x}.", 34),
       Stmt("letmut", "y",      IntVal(10), "", 37),
       Stmt("print",  "y",      IntVal(0),  "The value of y is {y}.", 38),
       Stmt("assign", "y",      IntVal(12), "", 39),
       Stmt("print",  "y",      IntVal(0),  "The value of y is now {y}.", 40),
       Stmt("let",    "THREE_HOURS_IN_SECONDS", IntVal(THREE_HOURS_IN_SECONDS), "", 44),
       Stmt("print",  "THREE_HOURS_IN_SECONDS", IntVal(0),
                      "Three hours in equal to {THREE_HOURS_IN_SECONDS} seconds.", 45),
       Stmt("let",    "z",      IntVal(5),  "", 50),
       Stmt("let",    "z",      IntVal(10), "", 52),
       Stmt("open",   "",       IntVal(0),  "", 53),
       Stmt("let",    "z",      IntVal(20), "", 54),
       Stmt("print",  "z",      IntVal(0),  "The value of z within this scope is {z}.", 56),
       Stmt("close",  "",       IntVal(0),  "", 57),
       Stmt("print",  "z",      IntVal(0),  "The value of z within this scope is {z}.", 60),
       Stmt("let",    "spaces", StrVal(<<" ", " ", " ", " ", " ">>), "", 64),
       Stmt("letlen", "spaces", IntVal(0),  "", 65),
       Stmt("print",  "spaces", IntVal(0),  "There are {spaces} spaces in the string.", 66),
       Stmt("close",  "",       IntVal(0),  "", 67) >>

\* The index in `scope` of the binding `name` resolves to, 0 when it has none.
Latest(scope, name) ==
    LET hits == {i \in 1..Len(scope) : scope[i].name = name}
    IN  IF hits = {} THEN 0 ELSE CHOOSE i \in hits : \A j \in hits : j <= i

\* The innermost open scope that binds `name`, 0 when none does.
ScopeOf(stack, name) ==
    LET hits == {k \in 1..Len(stack) : Latest(stack[k], name) # 0}
    IN  IF hits = {} THEN 0 ELSE CHOOSE k \in hits : \A j \in hits : j <= k

\* Name resolution: the latest binding in the innermost scope that has one.
Lookup(stack, name) ==
    LET k == ScopeOf(stack, name) IN stack[k][Latest(stack[k], name)]

\* Faulty variant: `let` of a name already bound overwrites that binding, as an
\* assignment would.
BindOverwrite(stack, name, val, mut) ==
    LET k == IF stack = <<>> THEN 0
             ELSE CHOOSE k \in 0..Len(stack) :
                    /\ k # 0 => \E i \in 1..Len(stack[k]) : stack[k][i].name = name
                    /\ \A j \in (k + 1)..Len(stack) :
                          \A i \in 1..Len(stack[j]) : stack[j][i].name # name
    IN  IF k = 0
        THEN [stack EXCEPT ![Len(stack)] = Append(@, [name |-> name, val |-> val, mut |-> mut])]
        ELSE [stack EXCEPT ![k] = [i \in 1..Len(@) |->
                 IF @[i].name = name THEN [name |-> name, val |-> val, mut |-> mut] ELSE @[i]]]

\* `let`: a new binding in the innermost scope; nothing already bound changes.
Bind(stack, name, val, mut) ==
    [stack EXCEPT ![Len(stack)] = Append(@, [name |-> name, val |-> val, mut |-> mut])]

\* `name = val`: the binding the name resolves to takes the new value.
Assign(stack, name, val) ==
    LET k == ScopeOf(stack, name)
    IN  [stack EXCEPT ![k][Latest(stack[k], name)].val = val]

Running == vpc \in 1..Len(Program)
Cur == Program[vpc]

\* After the last statement main has returned: vpc = Len(Program) + 1.
Advance == vpc' = vpc + 1

\* `{`
DemoOpen ==
    /\ Running /\ Cur.op = "open"
    /\ scopes' = Append(scopes, <<>>)
    /\ Advance
    /\ UNCHANGED vout
    /\ UNCHANGED <<gameVars, playerVars>>

\* `}`: the bindings of the scope end with it
DemoClose ==
    /\ Running /\ Cur.op = "close"
    /\ scopes' = SubSeq(scopes, 1, Len(scopes) - 1)
    /\ Advance
    /\ UNCHANGED vout
    /\ UNCHANGED <<gameVars, playerVars>>

\* `let name = literal;` and `const NAME: u32 = expr;`
DemoLet ==
    /\ Running /\ Cur.op = "let"
    /\ scopes' = Bind(scopes, Cur.name, Cur.val, FALSE)
    /\ Advance
    /\ UNCHANGED vout
    /\ UNCHANGED <<gameVars, playerVars>>

\* `let mut name = literal;`
DemoLetMut ==
    /\ Running /\ Cur.op = "letmut"
    /\ scopes' = Bind(scopes, Cur.name, Cur.val, TRUE)
    /\ Advance
    /\ UNCHANGED vout
    /\ UNCHANGED <<gameVars, playerVars>>

\* `name = literal;` (compiles only for a `mut` binding)
DemoAssign ==
    /\ Running /\ Cur.op = "assign"
    /\ Lookup(scopes, Cur.name).mut
    /\ scopes' = Assign(scopes, Cur.name, Cur.val)
    /\ Advance
    /\ UNCHANGED vout
    /\ UNCHANGED <<gameVars, playerVars>>

\* `let name = name.len();`: the new binding is built from the one it shadows
DemoLetLen ==
    /\ Running /\ Cur.op = "letlen"
    /\ scopes' = Bind(scopes, Cur.name, IntVal(Len(Lookup(scopes, Cur.name).val.str)), FALSE)
    /\ Advance
    /\ UNCHANGED vout
    /\ UNCHANGED <<gameVars, playerVars>>

\* println! with one named placeholder
DemoPrint ==
    /\ Running /\ Cur.op = "print"
    /\ vout' = Append(vout, [text |-> Cur.text, at |-> Cur.at,
                             arg |-> ToDigits(Lookup(scopes, Cur.name).val.int)])
    /\ Advance
    /\ UNCHANGED scopes
    /\ UNCHANGED <<gameVars, playerVars>>

----------------------------------------------------------------------------
(* The game under arbitrary input *)

Init ==
    /\ secret_number = 0
    /\ pc = "gen"
    /\ guess = <<>>
    /\ guess_num = NoGuess
    /\ out = <<>>
    /\ stdin_eof = FALSE
    /\ line = <<>>
    /\ read_result = "none"
    /\ lo = SecretMin
    /\ hi = SecretMax
    /\ typed = 0
    /\ tries = 0
    /\ vpc = 1
    /\ scopes = <<>>
    /\ vout = <<>>

Next ==
    \/ GenSecret
    \/ Prompt
    \/ ReadLineOk
    \/ ReadLineEof
    \/ ReadLineErr
    \/ ParseOk
    \/ ParseErr
    \/ Compare

Spec == Init /\ [][Next]_vars

----------------------------------------------------------------------------
(* The game with fairness: the process keeps running. A step that does not   *)
(* wait for the environment is taken, and at end of input read_line returns  *)
(* at once. The lines are the plain ones.                                    *)

ReadPlainLine == ReadLineFrom(PlainLines)

NextLive ==
    \/ GenSecret
    \/ Prompt
    \/ ReadPlainLine
    \/ ReadLineEof
    \/ ReadLineErr
    \/ ParseOk
    \/ ParseErr
    \/ Compare

Fairness ==
    /\ WF_vars(GenSecret)
    /\ WF_vars(Prompt)
    /\ WF_vars(stdin_eof /\ ReadLineEof)
    /\ WF_vars(ParseOk)
    /\ WF_vars(ParseErr)
    /\ WF_vars(Compare)

SpecLive == Init /\ [][NextLive]_vars /\ Fairness

----------------------------------------------------------------------------
(* The game against a player who halves an interval. The player starts with  *)
(* the range of the secret, types a midpoint of the interval as a line, and   *)
(* narrows the interval by the verdict printed.                               *)

Midpoints(a, b) == {(a + b) \div 2, (a + b + 1) \div 2}

\* read_line, the line being the player's midpoint and a newline
PlayerReadLine ==
    /\ pc = "read"
    /\ \E g \in Midpoints(lo, hi) :
          /\ typed' = g
          /\ line' = ToDigits(g) \o <<"\n">>
          /\ guess' = ReadInto(guess, ToDigits(g) \o <<"\n">>)
    /\ read_result' = "ok"
    /\ pc' = "parse"
    /\ UNCHANGED <<secret_number, guess_num, out, stdin_eof>>
    /\ UNCHANGED <<lo, hi, tries, demoVars>>

\* The comparison, and the player reading the verdict it prints.
PlayerCompare ==
    /\ CompareStep
    /\ tries' = tries + 1
    /\ lo' = IF out'[Len(out')].text = LowText THEN typed + 1 ELSE lo
    /\ hi' = IF out'[Len(out')].text = HighText THEN typed - 1 ELSE hi
    /\ UNCHANGED <<typed, demoVars>>

NextPlayer ==
    \/ GenSecret
    \/ Prompt
    \/ PlayerReadLine
    \/ ParseOk
    \/ PlayerCompare

SpecPlayer == Init /\ [][NextPlayer]_vars /\ WF_vars(NextPlayer)

----------------------------------------------------------------------------
(* The variables demo, run beside the start of the game *)

NextDemo ==
    \/ DemoOpen
    \/ DemoClose
    \/ DemoLet
    \/ DemoLetMut
    \/ DemoAssign
    \/ DemoLetLen
    \/ DemoPrint
    \/ GenSecret

SpecDemo == Init /\ [][NextDemo]_vars

----------------------------------------------------------------------------
(* Properties of the guessing game *)

\* An iteration has run to its end: the loop is back at its top, or was left.
IterationEnded == pc \in {"loop", "done"} /\ out # <<>>

\* The line of the iteration parses to the secret number.
GuessedSecret == ParseGuess(line).ok /\ ParseGuess(line).val = U32Of(secret_number)

C1_State ==
    /\ IterationEnded => (pc = "done" <=> GuessedSecret)
    /\ pc = "done" => /\ read_result = "ok"
                      /\ out[Len(out)].text = CorrectText

\* C1: the loop is left in an iteration if and only if the number parsed from
\* that iteration's line equals the secret number; leaving prints the Correct
\* message, and once the loop is left nothing more is printed or read (no step
\* is taken from the final state).
C1_LoopEndsExactlyOnEqual == [](C1_State) /\ [][pc # "done"]_vars

C1_Witness ==
    /\ pc = "done"
    /\ secret_number = 42
    /\ line = <<" ", "4", "2", "\r", "\n">>

C2_ParseFailed == read_result \in {"ok", "eof"} /\ ~ParseGuess(line).ok

C2_State ==
    /\ pc = "parse" => guess = line
    /\ pc = "read" => /\ guess = <<>>
                      /\ guess_num = NoGuess
                      /\ line = <<>>
                      /\ read_result = "none"
                      /\ out = <<Say(PromptText)>>
    /\ (C2_ParseFailed /\ pc # "parse") => /\ pc = "loop"
                                            /\ out = <<Say(PromptText)>>
                                            /\ guess_num = NoGuess

C2_Step ==
    /\ (pc = "parse" /\ C2_ParseFailed) =>
           /\ pc' = "loop"
           /\ out' = out
           /\ guess_num' = NoGuess
           /\ secret_number' = secret_number
    /\ pc = "loop" => (pc' = "read" /\ secret_number' = secret_number)

\* C2: when the line read does not parse as a u32 after trimming, the iteration
\* prints nothing after its prompt (no 'Your guess', no verdict), binds no number,
\* leaves the secret unchanged and goes back to the top of the loop, whose next
\* step is the prompt; the state in which the next line is read holds nothing of
\* the bad line (the buffer is empty), and the buffer parsed is always exactly the
\* line just read.
C2_ParseFailureSkipsIteration == [](C2_State) /\ [][C2_Step]_vars

C2_Witness ==
    /\ pc = "loop"
    /\ read_result = "ok"
    /\ line = <<"a", "b", "c", "\n">>
    /\ out = <<Say(PromptText)>>

C3_State ==
    read_result = "err" => /\ pc = "panic"
                           /\ guess_num = NoGuess
                           /\ out = <<Say(PromptText)>>

\* C3: when read_line returns an error the program is in its failure state, with
\* no number parsed and nothing printed in that iteration after the prompt, and
\* the failure state is final: no parse, print, prompt or read follows it.
C3_ReadErrorAborts == [](C3_State) /\ [][pc # "panic"]_vars

C3_Witness == pc = "panic" /\ read_result = "err" /\ out = <<Say(PromptText)>>

C4_Handled ==
    \/ out = <<Say(PromptText)>> /\ pc = "loop" /\ ~ParseGuess(line).ok
    \/ Len(out) = 3 /\ pc \in {"loop", "done"} /\ ParseGuess(line).ok

\* C4: no line that was read successfully leads to the failure state: the
\* failure state is reached only from a read error, an iteration that read a line
\* can always take its next step (the parse, then the comparison), and once past
\* them it has either skipped the line as a parse failure or compared it with the
\* secret, and is back at the top of the loop or has finished normally.
C4_BadInputDoesNotCrash ==
    /\ pc = "panic" => read_result = "err"
    /\ pc = "parse" => ENABLED (ParseOk \/ ParseErr)
    /\ pc = "compare" => ENABLED Compare
    /\ read_result \in {"ok", "eof"} => pc \in {"parse", "compare", "loop", "done"}
    /\ (read_result \in {"ok", "eof"} /\ pc \notin {"parse", "compare"}) => C4_Handled

C4_Witness ==
    /\ pc = "loop"
    /\ read_result = "ok"
    /\ line = <<"4", "2", "9", "4", "9", "6", "7", "2", "9", "6", "\n">>

\* The value of a u32 below 2^31 as a number.
C5_Small(v) == v[1] < Half \div 2
C5_Value(v) == v[1] * Half + v[2]

C5_VerdictMatches ==
    LET g == guess_num
        s == secret_number
        v == out[3]
    IN  /\ v.text \in {LowText, HighText, CorrectText}
        /\ v.text = LowText     <=> (C5_Small(g) /\ C5_Value(g) < s)
        /\ v.text = HighText    <=> (~C5_Small(g) \/ C5_Value(g) > s)
        /\ v.text = CorrectText <=> (C5_Small(g) /\ C5_Value(g) = s)
        /\ v.text = CorrectText => ParseU32(v.arg) = Ok(U32Of(s))
        /\ v.text # CorrectText => v.arg = <<>>

\* C5: an iteration whose line parses to g prints, after the prompt, 'Your
\* guess: g' and then exactly one verdict: Too low iff g < s, Too high iff g > s,
\* Correct iff g = s, the number in the Correct message being the secret s.
C5_VerdictMatchesOrdering ==
    /\ Len(out) <= 3
    /\ Len(out) # 2
    /\ (IterationEnded /\ ParseGuess(line).ok) => Len(out) = 3
    /\ Len(out) = 3 =>
          /\ guess_num # NoGuess
          /\ guess_num = ParseGuess(line).val
          /\ out[2].text = GuessText
          /\ ParseU32(out[2].arg) = Ok(guess_num)
          /\ C5_VerdictMatches

C5_Witness ==
    /\ Len(out) = 3
    /\ out[3].text = HighText
    /\ secret_number = 100
    /\ line = <<"1", "0", "1", "\n">>

C6_State ==
    /\ pc # "gen" => /\ secret_number \in 1..100
                     /\ secret_number \in PromptMin..PromptMax
    /\ pc \in {"read", "parse", "compare", "panic"} => out = <<Say(PromptText)>>
    /\ out # <<>> => /\ out[1] = Say(PromptText)
                     /\ \A i \in 2..Len(out) : out[i].text # PromptText

C6_Step ==
    /\ pc' # "gen"
    /\ pc # "gen" => secret_number' = secret_number
    /\ pc' = "read" => (pc = "loop" /\ out' = <<Say(PromptText)>>)

\* C6: the secret is chosen once, before the loop, in 1..100; no step after that
\* changes it; it lies in the range the prompt announces; and every iteration
\* prints the prompt exactly once, as its first output, before the line is read.
C6_SecretFixedInRange == [](C6_State) /\ [][C6_Step]_vars

C6_Witness ==
    /\ secret_number = 100
    /\ pc = "loop"
    /\ Len(out) = 3
    /\ out[3].text = LowText

C7_IsWs(c) == c \in {" ", "\t", "\n", "\r"}
C7_IsDigit(c) == c \in {"0", "1", "2", "3", "4", "5", "6", "7", "8", "9"}

\* The positions of the line that hold something other than whitespace.
C7_Ink == {i \in 1..Len(line) : ~C7_IsWs(line[i])}
C7_First == CHOOSE i \in C7_Ink : \A j \in C7_Ink : i <= j
C7_Last  == CHOOSE i \in C7_Ink : \A j \in C7_Ink : j <= i

\* The line is decimal digits (at most 9, so a number below 10^9) with only
\* whitespace before and after them.
C7_PaddedNumber ==
    /\ C7_Ink # {}
    /\ C7_Ink = C7_First..C7_Last
    /\ C7_Last - C7_First < 9
    /\ \A i \in C7_Ink : C7_IsDigit(line[i])

\* Some whitespace stands between two other characters.
C7_InnerWhitespace ==
    C7_Ink # {} /\ \E j \in C7_First..C7_Last : C7_IsWs(line[j])

RECURSIVE C7_Decimal(_, _)
C7_Decimal(i, j) ==
    IF j < i THEN 0
    ELSE 10 * C7_Decimal(i, j - 1) + ((CHOOSE d \in 0..9 : Digits[d + 1] = line[j]))

C7_Number == C7_Decimal(C7_First, C7_Last)

C7_PastParse == read_result = "ok" /\ pc # "parse"

C7_LargestU32 == <<"4", "2", "9", "4", "9", "6", "7", "2", "9", "5">>

\* C7: a line of the digits of n (below 10^9, or the largest u32) with any
\* whitespace and line terminator around them is taken as the guess n: the number
\* bound is n, 'Your guess:' shows n without the padding, and the verdict is the
\* one for n; a line with whitespace between its other characters is a parse
\* failure: nothing is bound and nothing is printed after the prompt.
C7_WhitespaceTrimmed ==
    /\ (C7_PastParse /\ C7_PaddedNumber) =>
          /\ guess_num = U32Of(C7_Number)
          /\ Len(out) = 3 =>
                /\ out[2] = [text |-> GuessText, arg |-> ToDigits(C7_Number)]
                /\ out[3].text = LowText     <=> C7_Number < secret_number
                /\ out[3].text = HighText    <=> C7_Number > secret_number
                /\ out[3].text = CorrectText <=> C7_Number = secret_number
          /\ pc \in {"loop", "done"} => Len(out) = 3
    /\ (C7_PastParse /\ C7_Ink # {} /\ SubSeq(line, C7_First, C7_Last) = C7_LargestU32) =>
          guess_num = U32MaxValue
    /\ (C7_PastParse /\ C7_InnerWhitespace) =>
          /\ guess_num = NoGuess
          /\ pc = "loop"
          /\ out = <<Say(PromptText)>>

C7_Witness ==
    /\ pc = "done"
    /\ secret_number = 7
    /\ line = <<" ", "7", " ", "\r", "\n">>
    /\ out[2].arg = <<"7">>

C7_WitnessInner ==
    /\ pc = "loop"
    /\ read_result = "ok"
    /\ line = <<"1", " ", "2", "\n">>

----------------------------------------------------------------------------
(* End of input, under fairness *)

C9_State ==
    /\ read_result = "eof" => (stdin_eof /\ line = <<>> /\ guess = <<>>)
    /\ stdin_eof => /\ pc \in {"parse", "loop", "read"}
                    /\ pc = "parse" => ~ParseGuess(guess).ok
                    /\ guess_num = NoGuess
                    /\ Len(out) <= 1

\* C9: at end of input read_line succeeds with nothing read, the empty line is a
\* parse failure, and from then on the program neither finishes nor fails: it
\* stays in the loop, printing only prompts, and comes back to read again and
\* again for ever.
C9_EndOfInputLoopsForever ==
    /\ [](C9_State)
    /\ [][stdin_eof => stdin_eof']_vars
    /\ [](stdin_eof => []<>(pc = "read" /\ out = <<Say(PromptText)>>))
    /\ [](stdin_eof => []<>(pc = "parse" /\ read_result = "eof"))

C9_Witness ==
    /\ stdin_eof
    /\ pc = "loop"
    /\ read_result = "eof"
    /\ out = <<Say(PromptText)>>

----------------------------------------------------------------------------
(* The player who halves the interval *)

C10_State ==
    /\ lo <= hi
    /\ pc # "gen" => (lo <= secret_number /\ secret_number <= hi)
    /\ tries <= 7
    /\ (tries = 7 /\ pc \in {"loop", "read", "parse", "compare", "done"}) => pc = "done"
    /\ pc = "done" => /\ out[Len(out)].text = CorrectText
                      /\ typed = secret_number
    /\ pc # "panic"

----------------------------------------------------------------------------
(* Properties of the variables demo *)

C8_Expected ==
    << [at |-> 34, arg |-> <<"5">>],
       [at |-> 38, arg |-> <<"1", "0">>],
       [at |-> 40, arg |-> <<"1", "2">>],
       [at |-> 45, arg |-> <<"1", "0", "8", "0", "0">>],
       [at |-> 56, arg |-> <<"2", "0">>],
       [at |-> 60, arg |-> <<"1", "0">>],
       [at |-> 66, arg |-> <<"5">>] >>

\* C8: the demo prints, in this order, x as 5, y as 10, y as 12, the constant as
\* 10800, z as 20 inside the inner block, z as 10 after the block, and spaces as
\* 5; x is 5 whenever it is bound, and when main returns all seven lines have
\* been printed.
C8_DemoOutput ==
    /\ Len(vout) <= Len(C8_Expected)
    /\ \A i \in 1..Len(vout) :
          /\ vout[i].at = C8_Expected[i].at
          /\ vout[i].arg = C8_Expected[i].arg
    /\ ScopeOf(scopes, "x") # 0 => Lookup(scopes, "x").val = IntVal(5)
    /\ vpc = Len(Program) + 1 => (Len(vout) = Len(C8_Expected) /\ scopes = <<>>)

C8_Witness ==
    /\ vpc = Len(Program) + 1
    /\ Len(vout) = 7
    /\ vout[5].arg = <<"2", "0">>
    /\ vout[6].arg = <<"1", "0">>

====
